---------------------------- MODULE Spec2Model ----------------------------
(***************************************************************************)
(* Model of roads_mexico_complete.py: a batch script that, for each of the *)
(* 32 Mexican states, looks up the state boundary, fetches the drivable    *)
(* road network inside a buffered boundary, clips the roads back to the    *)
(* true boundary, classifies them and renders three maps.                  *)
(*                                                                         *)
(* Representation.                                                         *)
(*  - A Python str is a sequence of one-character strings.  An accented    *)
(*    character is written as its base letter followed by a mark, so the   *)
(*    module stays ASCII: "a'" is a-acute, "e'" e-acute, "i'" i-acute,     *)
(*    "o'" o-acute, "u'" u-acute, "n~" n-tilde (and "A'" ... "N~" for the  *)
(*    capitals).  Each is ONE character of the modelled string.            *)
(*  - A geometry is a term: the polygon parts the boundary service         *)
(*    returned (each with its area), the total dilation applied by         *)
(*    buffer() in hundredths of a degree, and the coordinate system it is  *)
(*    expressed in.  buffer() and to_crs() are library calls; the model    *)
(*    keeps what they were applied to, not coordinates.                    *)
(*  - A float is [nan, v] with v in ten-thousandths (fixed point); nan is  *)
(*    the IEEE "not a number" that 0.0/0.0 gives in numpy/pandas.          *)
(*  - The program counter pc names the next statement group of the loop    *)
(*    body to run.  Local variables of the loop body are dropped at the    *)
(*    loop head: Python keeps their old values, but every one of them is   *)
(*    assigned before it is read in each iteration.                        *)
(***************************************************************************)
EXTENDS Integers, Sequences, FiniteSets, TLC

VARIABLES
    pc,            \* next statement group: "loop", "geocode", ..., "done", "crashed"
    i,             \* number of table rows the for loop has taken so far
    code, name,    \* loop variables (line 57)
    raw_geom,      \* line 61
    clean_geom,    \* lines 64-67
    buf,           \* line 70
    fetch_geom,    \* line 71
    roads,         \* lines 75, 80, 81, 84-89: the rows of the GeoDataFrame
    boundary_proj, \* lines 78-79
    center,        \* line 85
    extent,        \* lines 92-94
    safe,          \* lines 97-101
    calls,         \* geometry arguments handed to library calls in this iteration
    files,         \* names handed to savefig, in the order written
    stdout,        \* lines printed
    traceback      \* the uncaught exception that ended the run, if any

vars == <<pc, i, code, name, raw_geom, clean_geom, buf, fetch_geom, roads,
          boundary_proj, center, extent, safe, calls, files, stdout, traceback>>

----------------------------------------------------------------------------
(* Bounds of the model.                                                    *)

MaxParts == 2       \* polygon parts of a looked-up multi-polygon
MaxRoads == 2       \* edges the road service returns for one state
MaxSegs == 3        \* road segments of one state in the width computation
MaxDist == 3        \* largest distance from the centroid, in units of 100 km
MaxTagList == 2     \* length of a list-valued highway tag
MaxNameLen == 2     \* length of a synthetic state name

----------------------------------------------------------------------------
(* Sequences and strings.                                                  *)

Range(s) == { s[k] : k \in 1..Len(s) }

RECURSIVE SeqsUpTo(_, _)
SeqsUpTo(S, n) ==
    IF n = 0 THEN { <<>> }
    ELSE LET shorter == SeqsUpTo(S, n - 1)
         IN  shorter \cup { Append(s, x) : s \in { t \in shorter : Len(t) = n - 1 }, x \in S }

RECURSIVE Flatten(_)
Flatten(ss) == IF ss = <<>> THEN <<>> ELSE Head(ss) \o Flatten(Tail(ss))

\* str.__contains__ / str.contains with a plain pattern: sub occurs in s.
Contains(s, sub) ==
    \E k \in 0..(Len(s) - Len(sub)) :
        \A j \in 1..Len(sub) : s[k + j] = sub[j]

----------------------------------------------------------------------------
(* Lines 39-49: the state table.                                           *)

states ==
  <<
    [code |-> <<"0","1">>, name |-> <<"A","g","u","a","s","c","a","l","i","e","n","t","e","s">>],
    [code |-> <<"0","2">>, name |-> <<"B","a","j","a"," ","C","a","l","i","f","o","r","n","i","a">>],
    [code |-> <<"0","3">>, name |-> <<"B","a","j","a"," ","C","a","l","i","f","o","r","n","i","a"," ","S","u","r">>],
    [code |-> <<"0","4">>, name |-> <<"C","a","m","p","e","c","h","e">>],
    [code |-> <<"0","5">>, name |-> <<"C","o","a","h","u","i","l","a">>],
    [code |-> <<"0","6">>, name |-> <<"C","o","l","i","m","a">>],
    [code |-> <<"0","7">>, name |-> <<"C","h","i","a","p","a","s">>],
    [code |-> <<"0","8">>, name |-> <<"C","h","i","h","u","a","h","u","a">>],
    [code |-> <<"0","9">>, name |-> <<"M","e","x","i","c","o"," ","C","i","t","y">>],
    [code |-> <<"1","0">>, name |-> <<"D","u","r","a","n","g","o">>],
    [code |-> <<"1","1">>, name |-> <<"G","u","a","n","a","j","u","a","t","o">>],
    [code |-> <<"1","2">>, name |-> <<"G","u","e","r","r","e","r","o">>],
    [code |-> <<"1","3">>, name |-> <<"H","i","d","a","l","g","o">>],
    [code |-> <<"1","4">>, name |-> <<"J","a","l","i","s","c","o">>],
    [code |-> <<"1","5">>, name |-> <<"E","s","t","a","d","o"," ","d","e"," ","M","e'","x","i","c","o">>],
    [code |-> <<"1","6">>, name |-> <<"M","i","c","h","o","a","c","a'","n">>],
    [code |-> <<"1","7">>, name |-> <<"M","o","r","e","l","o","s">>],
    [code |-> <<"1","8">>, name |-> <<"N","a","y","a","r","i","t">>],
    [code |-> <<"1","9">>, name |-> <<"N","u","e","v","o"," ","L","e","o'","n">>],
    [code |-> <<"2","0">>, name |-> <<"O","a","x","a","c","a">>],
    [code |-> <<"2","1">>, name |-> <<"P","u","e","b","l","a">>],
    [code |-> <<"2","2">>, name |-> <<"Q","u","e","r","e'","t","a","r","o">>],
    [code |-> <<"2","3">>, name |-> <<"Q","u","i","n","t","a","n","a"," ","R","o","o">>],
    [code |-> <<"2","4">>, name |-> <<"S","a","n"," ","L","u","i","s"," ","P","o","t","o","s","i'">>],
    [code |-> <<"2","5">>, name |-> <<"S","i","n","a","l","o","a">>],
    [code |-> <<"2","6">>, name |-> <<"S","o","n","o","r","a">>],
    [code |-> <<"2","7">>, name |-> <<"T","a","b","a","s","c","o">>],
    [code |-> <<"2","8">>, name |-> <<"T","a","m","a","u","l","i","p","a","s">>],
    [code |-> <<"2","9">>, name |-> <<"T","l","a","x","c","a","l","a">>],
    [code |-> <<"3","0">>, name |-> <<"V","e","r","a","c","r","u","z">>],
    [code |-> <<"3","1">>, name |-> <<"Y","u","c","a","t","a'","n">>],
    [code |-> <<"3","2">>, name |-> <<"Z","a","c","a","t","e","c","a","s">>]
  >>

NumStates == Len(states)

----------------------------------------------------------------------------
(* Geometry.                                                               *)

NoGeom == [type |-> "None", parts |-> <<>>, buf |-> 0, crs |-> 0]

\* Areas a polygon part may have (two values, so that ties between parts occur).
Areas == {1, 2}

MkParts(areas) == [k \in 1..Len(areas) |-> [id |-> k, area |-> areas[k]]]

\* What ox.geocode_to_gdf may return in gdf.geometry.iloc[0] (line 61): a Polygon,
\* or a MultiPolygon of 1..MaxParts parts, in geographic coordinates (EPSG:4326).
RawGeoms ==
    { [type |-> "Polygon", parts |-> MkParts(<<a>>), buf |-> 0, crs |-> 4326] : a \in Areas }
    \cup
    { [type |-> "MultiPolygon", parts |-> MkParts(as), buf |-> 0, crs |-> 4326] :
        as \in (SeqsUpTo(Areas, MaxParts) \ { <<>> }) }

\* max(iterable, key=...): the first element whose key is the largest.
RECURSIVE MaxByArea(_, _)
MaxByArea(best, rest) ==
    IF rest = <<>> THEN best
    ELSE MaxByArea(IF Head(rest).area > best.area THEN Head(rest) ELSE best, Tail(rest))

\* A variant of largest_polygon that takes the first part, geom.geoms[0].
FirstPolygon(geom) ==
    IF geom.type = "MultiPolygon"
    THEN [type |-> "Polygon", parts |-> << Head(geom.parts) >>,
          buf |-> geom.buf, crs |-> geom.crs]
    ELSE geom

\* Lines 22-25.
largest_polygon(geom) ==
    IF geom.type = "MultiPolygon"
    THEN [type |-> "Polygon",
          parts |-> << MaxByArea(Head(geom.parts), Tail(geom.parts)) >>,
          buf |-> geom.buf, crs |-> geom.crs]
    ELSE geom

\* shapely's geom.buffer(d): the geometry dilated by d (hundredths of a degree).
buffer(geom, d) == [geom EXCEPT !.buf = geom.buf + d]

\* GeoSeries.to_crs(epsg=...): the same geometry in another coordinate system.
to_crs(geom, epsg) == [geom EXCEPT !.crs = epsg]

\* Lines 51-55.  Distances in hundredths of a degree.
BUFFER_DEG == 2
SPECIAL_BUFFER == 10
SPECIAL_STATES == { <<"J","a","l","i","s","c","o">>, <<"T","a","b","a","s","c","o">> }

\* Lines 63-67.
CleanGeom(nm, raw) ==
    IF nm = <<"C","o","l","i","m","a">> THEN largest_polygon(raw) ELSE raw

\* A variant of ChooseBuf without the special states.
ChooseBufDefault(nm) == BUFFER_DEG

\* Line 70.
ChooseBuf(nm) == IF nm \in SPECIAL_STATES THEN SPECIAL_BUFFER ELSE BUFFER_DEG

\* A variant of BoundaryProj that reprojects the buffered geometry.
BoundaryProjOfFetch(clean, fetch) == to_crs(fetch, 3857)

\* Lines 78-79: the geometry that is reprojected to become boundary_proj.
BoundaryProj(clean, fetch) == to_crs(clean, 3857)

----------------------------------------------------------------------------
(* Lines 27-36: highway classification.                                    *)
(* A highway tag is [list, s, l]: a str s (list = FALSE) or a list l of    *)
(* str (list = TRUE).  OSM tag values are compared whole, so each is one   *)
(* TLA+ string.                                                            *)

highway_order ==
    << "motorway", "trunk", "primary", "secondary",
       "tertiary", "unclassified", "residential", "service" >>

StrTag(s) == [list |-> FALSE, s |-> s, l |-> <<>>]
ListTag(l) == [list |-> TRUE, s |-> "", l |-> l]

\* list.index(x): position (from 0) of the first element equal to x.
ListIndex(lst, x) ==
    (CHOOSE k \in 1..Len(lst) : lst[k] = x /\ \A j \in 1..(k - 1) : lst[j] # x) - 1

\* A variant of Hw0 that takes the last element of a list, hw[-1].
Hw0Last(hw) == IF hw.list THEN hw.l[Len(hw.l)] ELSE hw.s

\* Line 35.
Hw0(hw) == IF hw.list THEN hw.l[1] ELSE hw.s

\* Line 36.
get_hwy_code(hw) ==
    IF Hw0(hw) \in Range(highway_order)
    THEN ListIndex(highway_order, Hw0(hw))
    ELSE Len(highway_order)

----------------------------------------------------------------------------
(* Floating point, as fixed point: v counts ten-thousandths.  nan is the   *)
(* value 0.0/0.0 has in numpy and pandas, which raise no exception for it; *)
(* every operation on a nan gives a nan.                                    *)

F(v) == [nan |-> FALSE, v |-> v]
NaN == [nan |-> TRUE, v |-> 0]

FAdd(a, b) == IF a.nan \/ b.nan THEN NaN ELSE F(a.v + b.v)
FSub(a, b) == IF a.nan \/ b.nan THEN NaN ELSE F(a.v - b.v)
FMul(a, b) == IF a.nan \/ b.nan THEN NaN ELSE F((a.v * b.v) \div 10000)
\* The only division of the program is line 89's, by mx - mn, where the
\* numerator raw_lw - mn is 0.0 too whenever mx - mn is: 0.0/0.0 is nan.
FDiv(a, b) == IF a.nan \/ b.nan \/ b.v = 0 THEN NaN ELSE F((a.v * 10000) \div b.v)

\* np.exp(dist / 1e6) with dist = d * 100 km, so e^(d/10); e^0.1 = 1.1052.
RECURSIVE NpExp(_)
NpExp(d) == IF d = 0 THEN 10000 ELSE (NpExp(d - 1) * 11052) \div 10000

\* Line 87: raw_lw = 1 / np.exp(dist / 1e6).
RawLw(d) == FDiv(F(10000), F(NpExp(d)))

\* Series.min() and Series.max() of a non-empty column of finite floats.
RECURSIVE SeriesMin(_)
SeriesMin(col) ==
    IF Len(col) = 1 THEN col[1]
    ELSE LET m == SeriesMin(Tail(col)) IN IF col[1].v < m.v THEN col[1] ELSE m

RECURSIVE SeriesMax(_)
SeriesMax(col) ==
    IF Len(col) = 1 THEN col[1]
    ELSE LET m == SeriesMax(Tail(col)) IN IF col[1].v > m.v THEN col[1] ELSE m

\* Line 89: the narrowest and the widest line, 0.05 and 0.9.
LW_MIN == 500
LW_MAX == 9000

\* A variant of Rescale that guards the division: the mid-range width when mx = mn.
RescaleGuarded(raw, mn, mx) ==
    IF mx = mn
    THEN F((LW_MIN + LW_MAX) \div 2)
    ELSE FAdd(F(LW_MIN),
              FMul(FDiv(FSub(raw, mn), FSub(mx, mn)), FSub(F(LW_MAX), F(LW_MIN))))

\* Line 89: 0.05 + (raw_lw - mn) / (mx - mn) * (0.9 - 0.05).
Rescale(raw, mn, mx) ==
    FAdd(F(LW_MIN),
         FMul(FDiv(FSub(raw, mn), FSub(mx, mn)), FSub(F(LW_MAX), F(LW_MIN))))

----------------------------------------------------------------------------
(* The rows of the roads GeoDataFrame.  A row is one edge of the fetched   *)
(* graph: its geometry type (a str), its highway tag, and two facts about  *)
(* where the edge lies that the library calls read: clip, the type of its  *)
(* intersection with the true boundary (<<>> when they do not meet), and   *)
(* d, the distance of that intersection from the boundary's centroid.      *)

LineString == <<"L","i","n","e","S","t","r","i","n","g">>
MultiLineString == <<"M","u","l","t","i","L","i","n","e","S","t","r","i","n","g">>
Point == <<"P","o","i","n","t">>
MultiPoint == <<"M","u","l","t","i","P","o","i","n","t">>
GeometryCollection ==
    <<"G","e","o","m","e","t","r","y","C","o","l","l","e","c","t","i","o","n">>

Edge(clip, hw, d) == [geom_type |-> LineString, clip |-> clip, highway |-> hw, d |-> d]

\* Line 80: gpd.clip(roads, mask).  Each geometry becomes its intersection with
\* the mask and rows with an empty intersection are dropped.  Every fetched edge
\* lies inside the buffered polygon it was fetched for, so only a mask that is
\* not dilated cuts anything.
Clip(rows, mask) ==
    IF mask.buf > 0 THEN rows
    ELSE LET kept == SelectSeq(rows, LAMBDA r : r.clip # <<>>)
         IN  [k \in 1..Len(kept) |-> [kept[k] EXCEPT !.geom_type = kept[k].clip]]

\* A variant of OnlyLines that filters nothing.
KeepAllRows(rows) == rows

\* Line 81: roads[roads.geom_type.str.contains("Line")].
OnlyLines(rows) ==
    SelectSeq(rows, LAMBDA r : Contains(r.geom_type, <<"L","i","n","e">>))

\* Line 86: GeoSeries.distance(center), for a row and the centroid of the mask
\* the row was clipped to.
Distance(row, c) == row.d

\* Lines 84-89: the columns hwy_code, dist and lw.  On an empty frame min() and
\* max() are nan and no row is computed.
Classified(rows, c) ==
    LET raw == [k \in 1..Len(rows) |-> RawLw(Distance(rows[k], c))]
        mn == IF rows = <<>> THEN NaN ELSE SeriesMin(raw)
        mx == IF rows = <<>> THEN NaN ELSE SeriesMax(raw)
    IN  [k \in 1..Len(rows) |->
            [geom_type |-> rows[k].geom_type, clip |-> rows[k].clip,
             highway |-> rows[k].highway, d |-> rows[k].d,
             hwy_code |-> get_hwy_code(rows[k].highway),
             dist |-> Distance(rows[k], c),
             lw |-> Rescale(raw[k], mn, mx)]]

----------------------------------------------------------------------------
(* Lines 96-101: the safe file name.                                       *)

\* str.lower() on the characters state names are written with.
LowerChar(c) ==
    CASE c = "A" -> "a" [] c = "B" -> "b" [] c = "C" -> "c" [] c = "D" -> "d"
      [] c = "E" -> "e" [] c = "F" -> "f" [] c = "G" -> "g" [] c = "H" -> "h"
      [] c = "I" -> "i" [] c = "J" -> "j" [] c = "K" -> "k" [] c = "L" -> "l"
      [] c = "M" -> "m" [] c = "N" -> "n" [] c = "O" -> "o" [] c = "P" -> "p"
      [] c = "Q" -> "q" [] c = "R" -> "r" [] c = "S" -> "s" [] c = "T" -> "t"
      [] c = "U" -> "u" [] c = "V" -> "v" [] c = "W" -> "w" [] c = "X" -> "x"
      [] c = "Y" -> "y" [] c = "Z" -> "z"
      [] c = "A'" -> "a'" [] c = "E'" -> "e'" [] c = "I'" -> "i'"
      [] c = "O'" -> "o'" [] c = "U'" -> "u'" [] c = "N~" -> "n~"
      [] OTHER -> c

lower(s) == [k \in 1..Len(s) |-> LowerChar(s[k])]

\* str.replace(old, new) for one-character old and new: every occurrence.
replace(s, old, new) == [k \in 1..Len(s) |-> IF s[k] = old THEN new ELSE s[k]]

\* A variant of SafeName without the replacement of i-acute.
SafeNameNoIAcute(nm) ==
    replace(replace(replace(replace(replace(replace(
        lower(nm), " ", "_"), "a'", "a"), "e'", "e"), "o'", "o"),
        "u'", "u"), "n~", "n")

\* Lines 97-101.
SafeName(nm) ==
    replace(replace(replace(replace(replace(replace(replace(
        lower(nm), " ", "_"), "a'", "a"), "e'", "e"), "i'", "i"), "o'", "o"),
        "u'", "u"), "n~", "n")

\* A variant of FileName that leaves the code out: f"output/{kind}_{safe}.png".
FileNameNoCode(kind, cd, sf) ==
    Flatten(<< <<"o","u","t","p","u","t","/">>, kind, <<"_">>, sf, <<".","p","n","g">> >>)

\* Lines 110, 129, 140: f"output/{kind}_{code}_{safe}.png".
FileName(kind, cd, sf) ==
    Flatten(<< <<"o","u","t","p","u","t","/">>, kind, <<"_">>, cd, <<"_">>, sf,
               <<".","p","n","g">> >>)

Basic == <<"b","a","s","i","c">>
Typemap == <<"t","y","p","e","m","a","p">>
Distmap == <<"d","i","s","t","m","a","p">>

----------------------------------------------------------------------------
(* What the road service may return for one state (line 74): up to         *)
(* MaxRoads edges, each a LineString in geographic coordinates.            *)

EdgeMenu ==
    { Edge(LineString, StrTag("primary"), 0),
      Edge(MultiLineString, ListTag(<<"residential", "service">>), 1),
      Edge(Point, StrTag("footway"), 1),
      Edge(MultiPoint, StrTag("trunk"), 2),
      Edge(GeometryCollection, StrTag("motorway"), 2),
      Edge(<<>>, StrTag("service"), 3) }

FetchResults == SeqsUpTo(EdgeMenu, MaxRoads)

----------------------------------------------------------------------------
(* The run.                                                                *)

NoTraceback == [raised |-> FALSE, at |-> 0, step |-> ""]
NoPoint == [type |-> "None", of |-> NoGeom]
NoExtent == [of |-> NoGeom, pad |-> 0]

\* The statement groups of the loop body, lines 60-141, in order.
BodySteps ==
    << "geocode", "clean", "buffer", "fetch", "clip", "classify", "extent",
       "safe", "basic", "typemap", "distmap" >>

ProcessingLine(cd, nm) == [kind |-> "processing", code |-> cd, name |-> nm]
SummaryLine == [kind |-> "summary", code |-> <<>>, name |-> <<>>]

Call(fn, geom) == [fn |-> fn, geom |-> geom]

\* A variant of AfterException: the loop body in a try block that skips the row.
AfterExceptionSkip(step) == "loop"

\* No statement of the script is inside a try block: an exception raised at any
\* step is uncaught and ends the interpreter.
AfterException(step) == "crashed"

Init ==
    /\ pc = "loop"
    /\ i = 0
    /\ code = <<>>
    /\ name = <<>>
    /\ raw_geom = NoGeom
    /\ clean_geom = NoGeom
    /\ buf = 0
    /\ fetch_geom = NoGeom
    /\ roads = <<>>
    /\ boundary_proj = NoGeom
    /\ center = NoPoint
    /\ extent = NoExtent
    /\ safe = <<>>
    /\ calls = <<>>
    /\ files = <<>>
    /\ stdout = <<>>
    /\ traceback = NoTraceback

\* Lines 57-58: the for loop takes the next table row and prints it.
Begin ==
    /\ pc = "loop"
    /\ i < NumStates
    /\ i' = i + 1
    /\ code' = states[i + 1].code
    /\ name' = states[i + 1].name
    /\ stdout' = Append(stdout, ProcessingLine(states[i + 1].code, states[i + 1].name))
    /\ raw_geom' = NoGeom
    /\ clean_geom' = NoGeom
    /\ buf' = 0
    /\ fetch_geom' = NoGeom
    /\ roads' = <<>>
    /\ boundary_proj' = NoGeom
    /\ center' = NoPoint
    /\ extent' = NoExtent
    /\ safe' = <<>>
    /\ calls' = <<>>
    /\ pc' = "geocode"
    /\ UNCHANGED <<files, traceback>>

\* Lines 60-61.
Geocode ==
    /\ pc = "geocode"
    /\ \E g \in RawGeoms : raw_geom' = g
    /\ pc' = "clean"
    /\ UNCHANGED <<i, code, name, clean_geom, buf, fetch_geom, roads, boundary_proj,
                   center, extent, safe, calls, files, stdout, traceback>>

\* Lines 63-67.
Clean ==
    /\ pc = "clean"
    /\ clean_geom' = CleanGeom(name, raw_geom)
    /\ pc' = "buffer"
    /\ UNCHANGED <<i, code, name, raw_geom, buf, fetch_geom, roads, boundary_proj,
                   center, extent, safe, calls, files, stdout, traceback>>

\* Lines 69-71.
Buffer ==
    /\ pc = "buffer"
    /\ buf' = ChooseBuf(name)
    /\ fetch_geom' = buffer(clean_geom, ChooseBuf(name))
    /\ pc' = "fetch"
    /\ UNCHANGED <<i, code, name, raw_geom, clean_geom, roads, boundary_proj,
                   center, extent, safe, calls, files, stdout, traceback>>

\* Lines 73-75: the edges inside fetch_geom, reprojected to EPSG:3857.
Fetch ==
    /\ pc = "fetch"
    /\ \E es \in FetchResults : roads' = es
    /\ calls' = Append(calls, Call("graph_from_polygon", fetch_geom))
    /\ pc' = "clip"
    /\ UNCHANGED <<i, code, name, raw_geom, clean_geom, buf, fetch_geom, boundary_proj,
                   center, extent, safe, files, stdout, traceback>>

\* Lines 77-81.
ClipRoads ==
    /\ pc = "clip"
    /\ boundary_proj' = BoundaryProj(clean_geom, fetch_geom)
    /\ roads' = OnlyLines(Clip(roads, BoundaryProj(clean_geom, fetch_geom)))
    /\ calls' = Append(calls, Call("clip", BoundaryProj(clean_geom, fetch_geom)))
    /\ pc' = "classify"
    /\ UNCHANGED <<i, code, name, raw_geom, clean_geom, buf, fetch_geom,
                   center, extent, safe, files, stdout, traceback>>

\* Lines 83-89.
Classify ==
    /\ pc = "classify"
    /\ center' = [type |-> "Point", of |-> boundary_proj]
    /\ roads' = Classified(roads, [type |-> "Point", of |-> boundary_proj])
    /\ calls' = Append(calls, Call("centroid", boundary_proj))
    /\ pc' = "extent"
    /\ UNCHANGED <<i, code, name, raw_geom, clean_geom, buf, fetch_geom, boundary_proj,
                   extent, safe, files, stdout, traceback>>

\* Lines 91-94: the bounds of boundary_proj, padded by 5% on every side.
Extent ==
    /\ pc = "extent"
    /\ extent' = [of |-> boundary_proj, pad |-> 5]
    /\ calls' = Append(calls, Call("bounds", boundary_proj))
    /\ pc' = "safe"
    /\ UNCHANGED <<i, code, name, raw_geom, clean_geom, buf, fetch_geom, roads,
                   boundary_proj, center, safe, files, stdout, traceback>>

\* Lines 96-101.
Safe ==
    /\ pc = "safe"
    /\ safe' = SafeName(name)
    /\ pc' = "basic"
    /\ UNCHANGED <<i, code, name, raw_geom, clean_geom, buf, fetch_geom, roads,
                   boundary_proj, center, extent, calls, files, stdout, traceback>>

\* One map: the roads, the outline of boundary_proj, the view limits, savefig.
Render(kind, next) ==
    /\ calls' = calls \o << Call("boundary.plot", boundary_proj),
                            Call("set_xlim/set_ylim", extent.of) >>
    /\ files' = Append(files, FileName(kind, code, safe))
    /\ pc' = next
    /\ UNCHANGED <<i, code, name, raw_geom, clean_geom, buf, fetch_geom, roads,
                   boundary_proj, center, extent, safe, stdout, traceback>>

\* Lines 103-111.
MapBasic == pc = "basic" /\ Render(Basic, "typemap")

\* Lines 113-130.
MapType == pc = "typemap" /\ Render(Typemap, "distmap")

\* Lines 132-141.
MapDist == pc = "distmap" /\ Render(Distmap, "loop")

\* Line 143: the table is exhausted.
Finish ==
    /\ pc = "loop"
    /\ i = NumStates
    /\ stdout' = Append(stdout, SummaryLine)
    /\ pc' = "done"
    /\ UNCHANGED <<i, code, name, raw_geom, clean_geom, buf, fetch_geom, roads,
                   boundary_proj, center, extent, safe, calls, files, traceback>>

\* A step of the loop body raises (a lookup miss, a network error, a malformed
\* geometry, a failed write): the step has no effect and the exception propagates.
Fail ==
    /\ pc \in Range(BodySteps)
    /\ traceback' = [raised |-> TRUE, at |-> i, step |-> pc]
    /\ pc' = AfterException(pc)
    /\ UNCHANGED <<i, code, name, raw_geom, clean_geom, buf, fetch_geom, roads,
                   boundary_proj, center, extent, safe, calls, files, stdout>>

Next ==
    \/ Begin
    \/ Geocode
    \/ Clean
    \/ Buffer
    \/ Fetch
    \/ ClipRoads
    \/ Classify
    \/ Extent
    \/ Safe
    \/ MapBasic
    \/ MapType
    \/ MapDist
    \/ Finish
    \/ Fail

Spec == Init /\ [][Next]_vars

----------------------------------------------------------------------------
(* Single steps on wider inputs.  The run above draws the roads of a state *)
(* from EdgeMenu; the two specifications below start in the middle of the  *)
(* first iteration, just before one step, with that step's input drawn     *)
(* from a larger set, and take that step.                                  *)

\* The state just before step p of the first iteration, for a single-polygon
\* boundary, a loop variable name nm and a roads frame rws.
MidRun(p, nm, rws, ctr, ext, cls) ==
    LET g == [type |-> "Polygon", parts |-> MkParts(<<1>>), buf |-> 0, crs |-> 4326]
        cg == CleanGeom(nm, g)
        fg == buffer(cg, ChooseBuf(nm))
        bp == BoundaryProj(cg, fg)
    IN  /\ pc = p
        /\ i = 1
        /\ code = states[1].code
        /\ name = nm
        /\ raw_geom = g
        /\ clean_geom = cg
        /\ buf = ChooseBuf(nm)
        /\ fetch_geom = fg
        /\ roads = rws
        /\ boundary_proj = bp
        /\ center = (IF ctr THEN [type |-> "Point", of |-> bp] ELSE NoPoint)
        /\ extent = (IF ext THEN [of |-> bp, pad |-> 5] ELSE NoExtent)
        /\ safe = <<>>
        /\ calls = SubSeq(<< Call("graph_from_polygon", fg), Call("clip", bp),
                             Call("centroid", bp), Call("bounds", bp) >>, 1, cls)
        /\ files = <<>>
        /\ stdout = << ProcessingLine(states[1].code, nm) >>
        /\ traceback = NoTraceback

\* Highway tags: every class of the hierarchy, tags outside it, and lists.
TagInputs ==
    { StrTag(s) : s \in Range(highway_order) \cup {"footway", "living_street", "motorway_link"} }
    \cup
    { ListTag(l) : l \in (SeqsUpTo({"residential", "service", "footway", "primary"}, MaxTagList)
                            \ { <<>> }) }

\* A clipped row: a line inside the boundary, d * 100 km from its centroid.
LineRow(hw, d) == [geom_type |-> LineString, clip |-> LineString, highway |-> hw, d |-> d]

\* Frames after line 81: one row of any tag, or up to MaxSegs rows at any distances.
ClassifyInputs ==
    { << LineRow(t, 0) >> : t \in TagInputs }
    \cup SeqsUpTo({ LineRow(StrTag("primary"), d) : d \in 0..MaxDist }, MaxSegs)

InitClassify ==
    \E rws \in ClassifyInputs :
        MidRun("classify", states[1].name, rws, FALSE, FALSE, 2)

SpecClassify == InitClassify /\ [][Classify]_vars

\* State names: the table's, the spec's examples, and every string of up to
\* MaxNameLen characters over an alphabet with capitals, accents, space and "_".
NameAlphabet ==
    { "A", "a", "A'", "a'", "e'", "i'", "o'", "u'", "U'", "n~", "N~", " ", "_", "x" }

NameInputs ==
    { states[k].name : k \in 1..NumStates }
    \cup { <<"M","e'","x","i","c","o">>,
           <<"N","u","e","v","o"," ","L","e","o'","n">>,
           <<"S","a","n"," ","L","u","i","s"," ","P","o","t","o","s","i'">> }
    \cup SeqsUpTo(NameAlphabet, MaxNameLen)

InitSafe ==
    \E nm \in NameInputs :
        MidRun("safe", nm, Classified(<<>>, NoPoint), TRUE, TRUE, 4)

SpecSafe == InitSafe /\ [][Safe]_vars

----------------------------------------------------------------------------
(* Properties.                                                             *)

Jalisco == <<"J","a","l","i","s","c","o">>
Tabasco == <<"T","a","b","a","s","c","o">>
Colima == <<"C","o","l","i","m","a">>

\* The safe names of the 32 table rows, written out.
ExpectedSafeNames ==
  <<
    <<"a","g","u","a","s","c","a","l","i","e","n","t","e","s">>,
    <<"b","a","j","a","_","c","a","l","i","f","o","r","n","i","a">>,
    <<"b","a","j","a","_","c","a","l","i","f","o","r","n","i","a","_","s","u","r">>,
    <<"c","a","m","p","e","c","h","e">>,
    <<"c","o","a","h","u","i","l","a">>,
    <<"c","o","l","i","m","a">>,
    <<"c","h","i","a","p","a","s">>,
    <<"c","h","i","h","u","a","h","u","a">>,
    <<"m","e","x","i","c","o","_","c","i","t","y">>,
    <<"d","u","r","a","n","g","o">>,
    <<"g","u","a","n","a","j","u","a","t","o">>,
    <<"g","u","e","r","r","e","r","o">>,
    <<"h","i","d","a","l","g","o">>,
    <<"j","a","l","i","s","c","o">>,
    <<"e","s","t","a","d","o","_","d","e","_","m","e","x","i","c","o">>,
    <<"m","i","c","h","o","a","c","a","n">>,
    <<"m","o","r","e","l","o","s">>,
    <<"n","a","y","a","r","i","t">>,
    <<"n","u","e","v","o","_","l","e","o","n">>,
    <<"o","a","x","a","c","a">>,
    <<"p","u","e","b","l","a">>,
    <<"q","u","e","r","e","t","a","r","o">>,
    <<"q","u","i","n","t","a","n","a","_","r","o","o">>,
    <<"s","a","n","_","l","u","i","s","_","p","o","t","o","s","i">>,
    <<"s","i","n","a","l","o","a">>,
    <<"s","o","n","o","r","a">>,
    <<"t","a","b","a","s","c","o">>,
    <<"t","a","m","a","u","l","i","p","a","s">>,
    <<"t","l","a","x","c","a","l","a">>,
    <<"v","e","r","a","c","r","u","z">>,
    <<"y","u","c","a","t","a","n">>,
    <<"z","a","c","a","t","e","c","a","s">>
  >>

Kinds == { Basic, Typemap, Distmap }

ExpectedFile(kind, k) ==
    <<"o","u","t","p","u","t","/">> \o kind \o <<"_">> \o states[k].code \o <<"_">>
        \o ExpectedSafeNames[k] \o <<".","p","n","g">>

ExpectedFiles == { ExpectedFile(kind, k) : kind \in Kinds, k \in 1..NumStates }

\* C1: in a run in which no step fails, the files written are exactly the 96
\* pairwise-distinct names output/{kind}_{code}_{safe_name}.png, kind in
\* {basic, typemap, distmap}, one per kind for each of the 32 table rows; no
\* other file is ever written, and each name is written once.
C1_ExactlyTheFiles ==
    /\ NumStates = 32
    /\ Cardinality(ExpectedFiles) = 96
    /\ Range(files) \subseteq ExpectedFiles
    /\ Cardinality(Range(files)) = Len(files)
    /\ pc = "done" =>
        /\ ~traceback.raised
        /\ Len(files) = 96
        /\ Range(files) = ExpectedFiles
        /\ \A k \in 1..NumStates : \A kind \in Kinds :
               Cardinality({ a \in 1..Len(files) : files[a] = ExpectedFile(kind, k) }) = 1

C1_Witness ==
    /\ pc = "done"
    /\ ~traceback.raised
    /\ Len(files) = 96
    /\ files[96] = ExpectedFile(Distmap, 32)

\* The lines printed so far are the "Processing" lines of the first i table rows,
\* in table order, followed by the summary line only once the run is done.
StartedIsPrefix ==
    /\ i \in 0..NumStates
    /\ Len(stdout) = i + (IF pc = "done" THEN 1 ELSE 0)
    /\ \A j \in 1..i : stdout[j] = ProcessingLine(states[j].code, states[j].name)
    /\ pc = "done" => i = NumStates /\ stdout[i + 1] = SummaryLine

\* After an exception the run is over at the row and step that raised: nothing
\* of a later row has been printed or written, and the summary is not printed.
FailureIsFatal ==
    /\ pc = "crashed" <=> traceback.raised
    /\ traceback.raised =>
        /\ traceback.at = i
        /\ traceback.step \in Range(BodySteps)
        /\ \A j \in 1..Len(stdout) : stdout[j] # SummaryLine
        /\ Range(files) \subseteq
               { ExpectedFile(kind, k) : kind \in Kinds, k \in 1..traceback.at }

\* C2: states are processed one at a time in table order and a failure is fatal:
\* the started states always form a prefix of the table, and once a step has
\* failed at row k no further step is taken (no retry, no later row, no file,
\* no summary line): the state never changes again.
C2_FailureIsFatalInOrder ==
    /\ [](StartedIsPrefix /\ FailureIsFatal)
    /\ [][traceback.raised => UNCHANGED vars]_vars
    /\ [][i' = i \/ (i' = i + 1 /\ pc = "loop" /\ ~traceback.raised)]_vars

C2_Witness ==
    /\ pc = "crashed"
    /\ traceback = [raised |-> TRUE, at |-> 14, step |-> "fetch"]
    /\ Len(stdout) = 14
    /\ Len(files) = 39

\* The true boundary of the current row: not dilated, with the parts of clean_geom.
IsTrueBoundary(g) ==
    /\ g.buf = 0
    /\ g.type = clean_geom.type
    /\ g.parts = clean_geom.parts

\* C3: the buffered geometry is consumed only by the road fetch; the clip mask,
\* the centroid of the width computation, the plot extent and the outline of
\* all three renders are the true, unbuffered boundary (islet-reduced for
\* Colima), never the buffered geometry.
C3_BufferOnlyForFetch ==
    /\ clean_geom.buf = 0
    /\ \A k \in 1..Len(calls) :
          IF calls[k].fn = "graph_from_polygon"
          THEN calls[k].geom = fetch_geom /\ calls[k].geom.buf > 0
          ELSE IsTrueBoundary(calls[k].geom)
    /\ boundary_proj # NoGeom => IsTrueBoundary(boundary_proj)
    /\ center # NoPoint => IsTrueBoundary(center.of)
    /\ extent # NoExtent => IsTrueBoundary(extent.of)
    /\ (pc \in {"loop", "done"} /\ i > 0) =>
          /\ [k \in 1..Len(calls) |-> calls[k].fn] =
                << "graph_from_polygon", "clip", "centroid", "bounds",
                   "boundary.plot", "set_xlim/set_ylim",
                   "boundary.plot", "set_xlim/set_ylim",
                   "boundary.plot", "set_xlim/set_ylim" >>

C3_Witness ==
    /\ pc = "loop"
    /\ i = 6
    /\ raw_geom.type = "MultiPolygon"
    /\ Len(raw_geom.parts) = 2
    /\ Len(calls) = 10
    /\ calls[1].geom.buf = 2
    /\ calls[9].geom = boundary_proj
    /\ Len(roads) = 2

\* C4: the buffer distance of the fetch geometry is 0.1 degrees for Jalisco and
\* Tabasco and 0.02 degrees for each of the other 30 states.
C4_BufferDistance ==
    /\ Cardinality({ k \in 1..NumStates : states[k].name \notin {Jalisco, Tabasco} }) = 30
    /\ fetch_geom # NoGeom =>
          /\ name \in {Jalisco, Tabasco} => buf = 10
          /\ name \notin {Jalisco, Tabasco} => buf = 2
          /\ fetch_geom.buf = clean_geom.buf + buf
          /\ fetch_geom.parts = clean_geom.parts
          /\ \A k \in 1..Len(calls) :
                calls[k].fn = "graph_from_polygon" => calls[k].geom.buf = buf

C4_Witness ==
    /\ i = 27
    /\ name = Tabasco
    /\ pc = "clip"
    /\ buf = 10
    /\ calls[1].geom.buf = 10

\* C5: islet reduction applies to Colima only.  For Colima a multi-polygon is
\* replaced by its single part of largest area and a single polygon is kept;
\* for every other state the looked-up geometry is used unchanged, also when
\* it is a multi-polygon.  That geometry is the one used downstream.
C5_IsletReduction ==
    clean_geom # NoGeom =>
        /\ name = Colima /\ raw_geom.type = "MultiPolygon" =>
              /\ clean_geom.type = "Polygon"
              /\ Len(clean_geom.parts) = 1
              /\ clean_geom.parts[1] \in Range(raw_geom.parts)
              /\ \A k \in 1..Len(raw_geom.parts) :
                    raw_geom.parts[k].area <= clean_geom.parts[1].area
        /\ name = Colima /\ raw_geom.type = "Polygon" => clean_geom = raw_geom
        /\ name = Colima => Len(clean_geom.parts) <= 1
        /\ name # Colima => clean_geom = raw_geom
        /\ boundary_proj # NoGeom => boundary_proj.parts = clean_geom.parts
        /\ \A k \in 1..Len(calls) : calls[k].geom.parts = clean_geom.parts

C5_Witness ==
    /\ name = Colima
    /\ pc = "classify"
    /\ raw_geom.type = "MultiPolygon"
    /\ Len(raw_geom.parts) = 2
    /\ raw_geom.parts[1].area < raw_geom.parts[2].area
    /\ clean_geom.parts = << raw_geom.parts[2] >>
    /\ boundary_proj.parts = clean_geom.parts

LineTypes ==
    { LineString, MultiLineString, <<"L","i","n","e","a","r","R","i","n","g">> }

\* C9: after the clip step the working road set holds line geometries only:
\* every row that reaches classification, the width computation and the renders
\* has a line-variant type, and the rows the clip step drops are the ones whose
\* clipped geometry is empty or not a line (the point artifacts).
C9_OnlyLinesAfterClip ==
    /\ [](boundary_proj # NoGeom =>
            \A k \in 1..Len(roads) :
                /\ roads[k].geom_type \in LineTypes
                /\ roads[k].geom_type \notin {Point, MultiPoint, GeometryCollection})
    /\ [][(pc = "clip" /\ pc' = "classify") =>
            Len(roads') = Cardinality({ k \in 1..Len(roads) : roads[k].clip \in LineTypes })]_vars

C9_Witness ==
    /\ pc = "extent"
    /\ i = 3
    /\ Len(roads) = 2
    /\ roads[1].geom_type = MultiLineString
    /\ roads[2].geom_type = LineString

----------------------------------------------------------------------------
(* Properties of single steps, checked under SpecClassify and SpecSafe.    *)

\* The class the hierarchy [motorway, trunk, primary, secondary, tertiary,
\* unclassified, residential, service] gives a tag value, 8 for any other.
ClassOf(s) ==
    CASE s = "motorway" -> 0
      [] s = "trunk" -> 1
      [] s = "primary" -> 2
      [] s = "secondary" -> 3
      [] s = "tertiary" -> 4
      [] s = "unclassified" -> 5
      [] s = "residential" -> 6
      [] s = "service" -> 7
      [] OTHER -> 8

\* C7: a string tag maps to its index 0..7 in the hierarchy, a list tag is
\* classified by its first element alone, every other tag maps to 8; so
\* 'primary' gives 2, ['residential','service'] gives 6, 'footway' gives 8, and
\* the result is always in 0..8.
C7_HighwayClass ==
    pc = "extent" =>
        \A k \in 1..Len(roads) :
            LET hw == roads[k].highway
                c == roads[k].hwy_code
            IN  /\ c \in 0..8
                /\ ~hw.list => c = ClassOf(hw.s)
                /\ hw.list => c = ClassOf(Head(hw.l))
                /\ hw = StrTag("primary") => c = 2
                /\ hw = ListTag(<<"residential", "service">>) => c = 6
                /\ hw = StrTag("footway") => c = 8

C7_Witness ==
    /\ pc = "extent"
    /\ Len(roads) = 1
    /\ roads[1].highway = ListTag(<<"residential", "service">>)
    /\ roads[1].hwy_code = 6

\* The unaccented, lower-case, underscore-for-space form of one character.
Translit(c) ==
    LET lc == LowerChar(c)
    IN  CASE lc = " " -> "_"
          [] lc = "a'" -> "a"
          [] lc = "e'" -> "e"
          [] lc = "i'" -> "i"
          [] lc = "o'" -> "o"
          [] lc = "u'" -> "u"
          [] lc = "n~" -> "n"
          [] OTHER -> lc

\* C8: safe_name is the name lowercased, with every space replaced by an
\* underscore and each of the accented characters a' e' i' o' u' n~ replaced by
\* a e i o u n, all other characters unchanged; so 'Me'xico' gives 'mexico',
\* 'Nuevo Leo'n' gives 'nuevo_leon' and 'San Luis Potosi'' gives
\* 'san_luis_potosi'.
C8_SafeName ==
    pc = "basic" =>
        /\ Len(safe) = Len(name)
        /\ \A k \in 1..Len(name) : safe[k] = Translit(name[k])
        /\ name = <<"M","e'","x","i","c","o">> => safe = <<"m","e","x","i","c","o">>
        /\ name = <<"N","u","e","v","o"," ","L","e","o'","n">>
              => safe = <<"n","u","e","v","o","_","l","e","o","n">>
        /\ name = <<"S","a","n"," ","L","u","i","s"," ","P","o","t","o","s","i'">>
              => safe = <<"s","a","n","_","l","u","i","s","_","p","o","t","o","s","i">>
        /\ \A k \in 1..NumStates : name = states[k].name => safe = ExpectedSafeNames[k]

C8_Witness ==
    /\ pc = "basic"
    /\ name = <<"S","a","n"," ","L","u","i","s"," ","P","o","t","o","s","i'">>
    /\ safe = <<"s","a","n","_","l","u","i","s","_","p","o","t","o","s","i">>

\* All rows of the frame lie at the same distance from the centroid.
SameDistance == \A j, k \in 1..Len(roads) : roads[j].dist = roads[k].dist

\* Row k has a defined width in [0.05, 0.9].
WidthInRange(k) ==
    /\ ~roads[k].lw.nan
    /\ roads[k].lw.v >= 500
    /\ roads[k].lw.v <= 9000

\* C6: over the road segments of one state, every width lies in [0.05, 0.9], a
\* segment at the minimum distance gets 0.9, one at the maximum distance gets
\* 0.05, and the width never increases with the distance.
C6_WidthRescaling ==
    pc = "extent" =>
        \A k \in 1..Len(roads) :
            /\ WidthInRange(k)
            /\ (\A j \in 1..Len(roads) : roads[k].dist <= roads[j].dist) => roads[k].lw.v = 9000
            /\ (\A j \in 1..Len(roads) : roads[k].dist >= roads[j].dist) => roads[k].lw.v = 500
            /\ \A j \in 1..Len(roads) :
                  roads[j].dist <= roads[k].dist => roads[j].lw.v >= roads[k].lw.v

\* The part of C6 the code does satisfy: the same statement for the frames whose
\* rows are not all at one distance.
WidthRescalingWhenDistancesDiffer ==
    (pc = "extent" /\ ~SameDistance) =>
        \A k \in 1..Len(roads) :
            /\ WidthInRange(k)
            /\ (\A j \in 1..Len(roads) : roads[k].dist <= roads[j].dist) => roads[k].lw.v = 9000
            /\ (\A j \in 1..Len(roads) : roads[k].dist >= roads[j].dist) => roads[k].lw.v = 500
            /\ \A j \in 1..Len(roads) :
                  roads[j].dist <= roads[k].dist => roads[j].lw.v >= roads[k].lw.v

\* C10: when all segments of a state are at the same distance from the centroid
\* (a single segment included), the rescale divides by zero, nothing guards
\* it, and no segment receives a defined width in [0.05, 0.9].
C10_EqualDistancesGiveNoWidth ==
    (pc = "extent" /\ roads # <<>> /\ SameDistance) =>
        \A k \in 1..Len(roads) : roads[k].lw.nan /\ ~WidthInRange(k)

C10_Witness ==
    /\ pc = "extent"
    /\ Len(roads) = 2
    /\ roads[1].dist = 2
    /\ roads[2].dist = 2
    /\ roads[1].lw = NaN
    /\ roads[2].lw = NaN

====
